---- MODULE Spec2Model ----
(***************************************************************************)
(* SQLAlchemyMealRepository                                                *)
(* (src/backend/infrastructure/sqlalchemy/repositories/meal.py).           *)
(*                                                                         *)
(* The database is the pair of tables (meals, schoolInfos). Every public   *)
(* coroutine of the repository is run by a caller p: the call opens a      *)
(* session and a transaction ("async with"), each "await" on the database  *)
(* is one step, and the return (or the exception leaving the "async with" *)
(* blocks) closes both. Callers interleave at the awaits.                  *)
(*                                                                         *)
(* Values a coroutine can produce are tagged records:                      *)
(*   [kind |-> "None"], [kind |-> "int", val |-> id],                      *)
(*   [kind |-> "Meal", val |-> entity], [kind |-> "list", val |-> seq],    *)
(*   [kind |-> "CreateMealStatus", val |-> "SCHOOL_INFO_NOT_FOUND"],       *)
(*   [kind |-> "raise", val |-> exception name].                           *)
(***************************************************************************)
EXTENDS Integers, Sequences, FiniteSets, TLC

\* Largest number of meal rows the table is allowed to grow to.
MaxMeals == 2

\* The callers (independently scheduled coroutines).
Procs == {"p1", "p2"}

EduOfficeCodes == {"E1", "E2"}
StandardSchoolCodes == {"S1", "S2"}
Dates == {"d1", "d2"}
\* Literal["조식", "중식", "석식"] (line 75), transliterated.
MealNames == {"josik", "jungsik", "seoksik"}

\* The SchoolInfo table: one row per known school; the pairs ("E1","S2") and
\* ("E2","S1") match no row although each code occurs in some row.
SchoolInfoRows ==
    { [id |-> 1, edu_office_code |-> "E1", standard_school_code |-> "S1"],
      [id |-> 2, edu_office_code |-> "E2", standard_school_code |-> "S2"] }

\* Domain entities handed to create_by_code. Two share the slot (name, date)
\* with different dishes, one differs in name, one in date, and one carries
\* comments, which create_by_code does not store.
InputMeals ==
    { [name |-> "josik", dish_name |-> "rice", calorie |-> 300, date |-> "d1",
       comments |-> << >>],
      [name |-> "josik", dish_name |-> "soup", calorie |-> 450, date |-> "d1",
       comments |-> <<"good">>],
      [name |-> "jungsik", dish_name |-> "rice", calorie |-> 300, date |-> "d1",
       comments |-> << >>],
      [name |-> "josik", dish_name |-> "rice", calorie |-> 300, date |-> "d2",
       comments |-> << >>] }

\* Ids a caller may ask get_by_id for: stored ones and ones never assigned.
MealIds == 0 .. (MaxMeals + 1)

VARIABLES
    meals,        \* the MealSchema table: a set of rows
    schoolInfos,  \* the SchoolInfoSchema table: a set of rows
    nextId,       \* the next autoincrement primary key of the meal table
    pc,           \* pc[p]: where caller p's coroutine is suspended
    call,         \* call[p]: the operation p runs and its arguments
    pending,      \* pending[p]: objects added to p's session, not yet flushed
    result,       \* result[p]: what p's coroutine returned or raised
    session,      \* session[p]: p's AsyncSession is open
    txn           \* txn[p]: p's session.begin() transaction is open

vars == <<meals, schoolInfos, nextId, pc, call, pending, result, session, txn>>

NoCall == [op |-> "none"]
NoResult == [kind |-> "none"]
NoneValue == [kind |-> "None"]
IntValue(i) == [kind |-> "int", val |-> i]
MealValue(m) == [kind |-> "Meal", val |-> m]
ListValue(s) == [kind |-> "list", val |-> s]
SCHOOL_INFO_NOT_FOUND ==
    [kind |-> "CreateMealStatus", val |-> "SCHOOL_INFO_NOT_FOUND"]
Raise(e) == [kind |-> "raise", val |-> e]
MultipleResultsFound == Raise("MultipleResultsFound")
DBAPIError == Raise("DBAPIError")

-----------------------------------------------------------------------------
(* Queries, as functions of the tables.                                    *)

\* MealSchema.to_entity(): the row without its keys.
to_entity(row) ==
    [name |-> row.name, dish_name |-> row.dish_name, calorie |-> row.calorie,
     date |-> row.date, comments |-> row.comments]

\* Result.scalar_one_or_none() on the set of (distinct) scalars selected.
scalar_one_or_none(S) ==
    IF S = {} THEN NoneValue
    ELSE IF Cardinality(S) = 1 THEN IntValue(CHOOSE x \in S : TRUE)
    ELSE MultipleResultsFound

\* A lookup that forgets the second condition of the where clause.
SelectSchoolInfo_edu_only(sis, edu_office_code, standard_school_code) ==
    { si \in sis : si.edu_office_code = edu_office_code }

\* select(SchoolInfoSchema).where(edu_office_code == .., standard_school_code == ..)
SelectSchoolInfo(sis, edu_office_code, standard_school_code) ==
    { si \in sis : /\ si.edu_office_code = edu_office_code
                   /\ si.standard_school_code = standard_school_code }

\* A plain selectinload(SchoolInfoSchema.meals), without the date criterion.
selectinload_any_date(ms, selected, date) ==
    { m \in ms : m.school_info_id \in { si.id : si \in selected } }

\* selectinload(SchoolInfoSchema.meals.and_(MealSchema.date == date)): the
\* meals of the selected schools on that date.
selectinload(ms, selected, date) ==
    { m \in ms : /\ m.school_info_id \in { si.id : si \in selected }
                 /\ m.date = date }

\* A set of rows as the list the database hands back (primary-key order).
RECURSIVE RowList(_)
RowList(S) ==
    IF S = {} THEN << >>
    ELSE LET first == CHOOSE m \in S : \A o \in S : m.id <= o.id
         IN  <<first>> \o RowList(S \ {first})

get_schema_by_code(ms, sis, edu_office_code, standard_school_code, date) ==
    RowList(selectinload(ms,
                SelectSchoolInfo(sis, edu_office_code, standard_school_code),
                date))

get_by_code_value(ms, sis, edu_office_code, standard_school_code, date) ==
    LET meal_schemas ==
            get_schema_by_code(ms, sis, edu_office_code, standard_school_code, date)
    IN  ListValue([i \in 1 .. Len(meal_schemas) |-> to_entity(meal_schemas[i])])

get_with_id_by_code_value(ms, sis, edu_office_code, standard_school_code, date) ==
    LET meal_schemas ==
            get_schema_by_code(ms, sis, edu_office_code, standard_school_code, date)
    IN  ListValue([i \in 1 .. Len(meal_schemas) |->
                      <<meal_schemas[i].id, to_entity(meal_schemas[i])>>])

\* A lookup that compares the wrong column (the foreign key) with meal_id.
get_by_id_value_by_school(ms, meal_id) ==
    LET rows == { m \in ms : m.school_info_id = meal_id }
        one == scalar_one_or_none({ m.id : m \in rows })
    IN  IF one.kind = "int"
        THEN MealValue(to_entity(CHOOSE m \in rows : m.id = one.val))
        ELSE one

\* select(MealSchema).where(MealSchema.id == meal_id), scalar_one_or_none(),
\* to_entity() (lines 55-59).
get_by_id_value(ms, meal_id) ==
    LET rows == { m \in ms : m.id = meal_id }
        one == scalar_one_or_none({ m.id : m \in rows })
    IN  IF one.kind = "int"
        THEN MealValue(to_entity(CHOOSE m \in rows : m.id = one.val))
        ELSE one

\* select(SchoolInfoSchema.id).where(..).scalar_subquery(): NULL on no row
\* (and then "school_info_id = NULL" selects nothing), the id on one row,
\* a database error on more.
get_id_by_code_value(ms, sis, edu_office_code, standard_school_code, date, meal_name) ==
    LET school_info_subquery ==
            { si.id : si \in SelectSchoolInfo(sis, edu_office_code,
                                              standard_school_code) }
    IN  IF Cardinality(school_info_subquery) > 1 THEN DBAPIError
        ELSE scalar_one_or_none(
                 { m.id : m \in { r \in ms :
                                    /\ r.school_info_id \in school_info_subquery
                                    /\ r.date = date
                                    /\ r.name = meal_name } })

\* select(SchoolInfoSchema.id).where(..) followed by scalar_one_or_none().
SelectSchoolInfoId(sis, edu_office_code, standard_school_code) ==
    scalar_one_or_none(
        { si.id : si \in SelectSchoolInfo(sis, edu_office_code,
                                          standard_school_code) })

\* A constructor call that passes meal.name for dish_name.
NewMealSchema_dish_from_name(school_info_id, meal) ==
    [school_info_id |-> school_info_id, name |-> meal.name,
     dish_name |-> meal.name, calorie |-> meal.calorie,
     date |-> meal.date, comments |-> << >>]

\* A constructor call that passes meal.comments on instead of [].
NewMealSchema_keep_comments(school_info_id, meal) ==
    [school_info_id |-> school_info_id, name |-> meal.name,
     dish_name |-> meal.dish_name, calorie |-> meal.calorie,
     date |-> meal.date, comments |-> meal.comments]

\* MealSchema(school_info_id=.., name=meal.name, .., comments=[]): the id is
\* assigned by the database at flush.
NewMealSchema(school_info_id, meal) ==
    [school_info_id |-> school_info_id, name |-> meal.name,
     dish_name |-> meal.dish_name, calorie |-> meal.calorie,
     date |-> meal.date, comments |-> << >>]

\* The meal table's constraints beyond its primary key: none. The slot
\* (school_info_id, date, name) is not declared unique, so no row is rejected.
MealTableRejects(ms, row) == FALSE

\* A session.merge()-like write that replaces the stored row of the same
\* (school_info_id, date, name).
Flush_upsert(ms, row, id) ==
    { m \in ms : ~ ( /\ m.school_info_id = row.school_info_id
                     /\ m.date = row.date
                     /\ m.name = row.name ) }
        \cup { [id |-> id] @@ row }

\* The INSERT that session.commit() flushes: the table with the new row under
\* the primary key the database assigns.
Flush(ms, row, id) ==
    ms \cup { [id |-> id] @@ row }

-----------------------------------------------------------------------------
(* The session and transaction context managers.                           *)

\* async with self.sa.session_maker() as session: async with session.begin():
SessionEnter(p, c) ==
    /\ pc[p] = "idle"
    /\ call' = [call EXCEPT ![p] = c]
    /\ session' = [session EXCEPT ![p] = TRUE]
    /\ txn' = [txn EXCEPT ![p] = TRUE]
    /\ result' = [result EXCEPT ![p] = NoResult]

\* Explicit close() calls after the body instead of "async with": an
\* exception skips them.
SessionExit_no_finally(p, r) ==
    /\ pc' = [pc EXCEPT ![p] = "done"]
    /\ result' = [result EXCEPT ![p] = r]
    /\ pending' = [pending EXCEPT ![p] = IF r.kind = "raise" THEN @ ELSE {}]
    /\ session' = [session EXCEPT ![p] = (r.kind = "raise")]
    /\ txn' = [txn EXCEPT ![p] = (r.kind = "raise")]

\* Leaving both "async with" blocks with value or exception r: the
\* transaction ends, what the session still holds unflushed is dropped, the
\* session is closed.
SessionExit(p, r) ==
    /\ pc' = [pc EXCEPT ![p] = "done"]
    /\ result' = [result EXCEPT ![p] = r]
    /\ pending' = [pending EXCEPT ![p] = {}]
    /\ session' = [session EXCEPT ![p] = FALSE]
    /\ txn' = [txn EXCEPT ![p] = FALSE]

-----------------------------------------------------------------------------
(* The operations.                                                         *)

InFlightCreates == { q \in Procs : pc[q] \in {"select_school_info", "commit"} }

get_by_code_call(p, edu_office_code, standard_school_code, date) ==
    /\ SessionEnter(p, [op |-> "get_by_code", edu_office_code |-> edu_office_code,
                        standard_school_code |-> standard_school_code,
                        date |-> date])
    /\ pc' = [pc EXCEPT ![p] = "execute"]
    /\ UNCHANGED <<meals, schoolInfos, nextId, pending>>

get_by_code(p) ==
    /\ pc[p] = "execute"
    /\ call[p].op = "get_by_code"
    /\ SessionExit(p, get_by_code_value(meals, schoolInfos,
                          call[p].edu_office_code, call[p].standard_school_code,
                          call[p].date))
    /\ UNCHANGED <<meals, schoolInfos, nextId, call>>

get_by_id_call(p, meal_id) ==
    /\ SessionEnter(p, [op |-> "get_by_id", meal_id |-> meal_id])
    /\ pc' = [pc EXCEPT ![p] = "execute"]
    /\ UNCHANGED <<meals, schoolInfos, nextId, pending>>

get_by_id(p) ==
    /\ pc[p] = "execute"
    /\ call[p].op = "get_by_id"
    /\ SessionExit(p, get_by_id_value(meals, call[p].meal_id))
    /\ UNCHANGED <<meals, schoolInfos, nextId, call>>

get_with_id_by_code_call(p, edu_office_code, standard_school_code, date) ==
    /\ SessionEnter(p, [op |-> "get_with_id_by_code",
                        edu_office_code |-> edu_office_code,
                        standard_school_code |-> standard_school_code,
                        date |-> date])
    /\ pc' = [pc EXCEPT ![p] = "execute"]
    /\ UNCHANGED <<meals, schoolInfos, nextId, pending>>

get_with_id_by_code(p) ==
    /\ pc[p] = "execute"
    /\ call[p].op = "get_with_id_by_code"
    /\ SessionExit(p, get_with_id_by_code_value(meals, schoolInfos,
                          call[p].edu_office_code, call[p].standard_school_code,
                          call[p].date))
    /\ UNCHANGED <<meals, schoolInfos, nextId, call>>

get_id_by_code_call(p, edu_office_code, standard_school_code, date, meal_name) ==
    /\ SessionEnter(p, [op |-> "get_id_by_code",
                        edu_office_code |-> edu_office_code,
                        standard_school_code |-> standard_school_code,
                        date |-> date, meal_name |-> meal_name])
    /\ pc' = [pc EXCEPT ![p] = "execute"]
    /\ UNCHANGED <<meals, schoolInfos, nextId, pending>>

get_id_by_code(p) ==
    /\ pc[p] = "execute"
    /\ call[p].op = "get_id_by_code"
    /\ SessionExit(p, get_id_by_code_value(meals, schoolInfos,
                          call[p].edu_office_code, call[p].standard_school_code,
                          call[p].date, call[p].meal_name))
    /\ UNCHANGED <<meals, schoolInfos, nextId, call>>

create_by_code_call(p, edu_office_code, standard_school_code, meal) ==
    /\ Cardinality(meals) + Cardinality(InFlightCreates) < MaxMeals
    /\ SessionEnter(p, [op |-> "create_by_code",
                        edu_office_code |-> edu_office_code,
                        standard_school_code |-> standard_school_code,
                        meal |-> meal])
    /\ pc' = [pc EXCEPT ![p] = "select_school_info"]
    /\ UNCHANGED <<meals, schoolInfos, nextId, pending>>

\* Lines 105-125: the school lookup, the early return, session.add().
create_by_code_select(p) ==
    /\ pc[p] = "select_school_info"
    /\ LET school_info_id ==
               SelectSchoolInfoId(schoolInfos, call[p].edu_office_code,
                                  call[p].standard_school_code)
       IN  IF school_info_id.kind = "None"
           THEN SessionExit(p, SCHOOL_INFO_NOT_FOUND)
           ELSE IF school_info_id.kind = "raise"
           THEN SessionExit(p, school_info_id)
           ELSE /\ pc' = [pc EXCEPT ![p] = "commit"]
                /\ pending' = [pending EXCEPT ![p] =
                                  {NewMealSchema(school_info_id.val, call[p].meal)}]
                /\ UNCHANGED <<result, session, txn>>
    /\ UNCHANGED <<meals, schoolInfos, nextId, call>>

\* A get-or-create: a call whose slot (school_info_id, date, name) is already
\* stored returns the stored row's id and inserts nothing.
create_by_code_commit_get_or_create(p) ==
    /\ pc[p] = "commit"
    /\ LET row == CHOOSE r \in pending[p] : TRUE
           stored == { m \in meals : /\ m.school_info_id = row.school_info_id
                                     /\ m.date = row.date
                                     /\ m.name = row.name }
       IN  IF stored # {}
           THEN /\ SessionExit(p, IntValue((CHOOSE m \in stored : TRUE).id))
                /\ UNCHANGED <<meals, nextId>>
           ELSE /\ meals' = Flush(meals, row, nextId)
                /\ nextId' = nextId + 1
                /\ SessionExit(p, IntValue(nextId))
    /\ UNCHANGED <<schoolInfos, call>>

\* Lines 126-127: await session.commit(); return meal_schema.id (the session
\* is configured not to expire instances on commit, so the id read after the
\* commit is the one the flush assigned). A row the table's constraints
\* reject makes the commit raise, and the transaction is rolled back.
create_by_code_commit(p) ==
    /\ pc[p] = "commit"
    /\ LET row == CHOOSE r \in pending[p] : TRUE
       IN  IF MealTableRejects(meals, row)
           THEN /\ SessionExit(p, Raise("IntegrityError"))
                /\ UNCHANGED <<meals, nextId>>
           ELSE /\ meals' = Flush(meals, row, nextId)
                /\ nextId' = nextId + 1
                /\ SessionExit(p, IntValue(nextId))
    /\ UNCHANGED <<schoolInfos, call>>

\* An await on the database fails (connection loss): the exception leaves the
\* "async with" blocks, which roll the transaction back, and reaches the caller.
execute_fails(p) ==
    /\ pc[p] \in {"execute", "select_school_info", "commit"}
    /\ SessionExit(p, DBAPIError)
    /\ UNCHANGED <<meals, schoolInfos, nextId, call>>

\* The caller takes the outcome and is free to call again.
Return(p) ==
    /\ pc[p] = "done"
    /\ pc' = [pc EXCEPT ![p] = "idle"]
    /\ call' = [call EXCEPT ![p] = NoCall]
    /\ result' = [result EXCEPT ![p] = NoResult]
    /\ UNCHANGED <<meals, schoolInfos, nextId, pending, session, txn>>

-----------------------------------------------------------------------------

Init ==
    /\ meals = {}
    /\ schoolInfos = SchoolInfoRows
    /\ nextId = 1
    /\ pc = [p \in Procs |-> "idle"]
    /\ call = [p \in Procs |-> NoCall]
    /\ pending = [p \in Procs |-> {}]
    /\ result = [p \in Procs |-> NoResult]
    /\ session = [p \in Procs |-> FALSE]
    /\ txn = [p \in Procs |-> FALSE]

\* The calls callers in P may start, with arguments drawn from the given sets.
Calls(P, Edu, Std, D, N, Ids, M) ==
    \E p \in P :
        \/ \E e \in Edu, s \in Std, d \in D : get_by_code_call(p, e, s, d)
        \/ \E i \in Ids : get_by_id_call(p, i)
        \/ \E e \in Edu, s \in Std, d \in D : get_with_id_by_code_call(p, e, s, d)
        \/ \E e \in Edu, s \in Std, d \in D, n \in N :
               get_id_by_code_call(p, e, s, d, n)
        \/ \E e \in Edu, s \in Std, m \in M : create_by_code_call(p, e, s, m)

\* The steps of the coroutines callers in P have started.
Steps(P) ==
    \E p \in P :
        \/ get_by_code(p)
        \/ get_by_id(p)
        \/ get_with_id_by_code(p)
        \/ get_id_by_code(p)
        \/ create_by_code_select(p)
        \/ create_by_code_commit(p)
        \/ execute_fails(p)
        \/ Return(p)

\* One caller, awaiting each call before the next, with every argument.
Next ==
    \/ Calls({"p1"}, EduOfficeCodes, StandardSchoolCodes, Dates, MealNames,
             MealIds, InputMeals)
    \/ Steps({"p1"})

Spec == Init /\ [][Next]_vars

\* Two callers whose coroutines interleave at every await. Their arguments
\* are the ones that meet in the table: both schools and an unknown pair, one
\* date, and the two input meals of the same slot (name, date).
ConcDates == {"d1"}
ConcMealNames == {"josik"}
ConcMealIds == {1, MaxMeals + 1}
ConcInputMeals == { m \in InputMeals : m.name = "josik" /\ m.date = "d1" }

NextConc ==
    \/ Calls(Procs, EduOfficeCodes, StandardSchoolCodes, ConcDates,
             ConcMealNames, ConcMealIds, ConcInputMeals)
    \/ Steps(Procs)

SpecConc == Init /\ [][NextConc]_vars

-----------------------------------------------------------------------------
(* Properties.                                                             *)

\* Caller p's coroutine for operation op has finished.
Done(p, op) == pc[p] = "done" /\ call[p].op = op

\* Caller p's operation ended in the propagated connectivity failure.
Failed(p) == result[p].kind = "raise" /\ result[p].val = "DBAPIError"

\* Some SchoolInfo row carries both codes.
Known(e, s) ==
    \E si \in schoolInfos : si.edu_office_code = e /\ si.standard_school_code = s

\* Row m and entity x agree on name, dish_name, calorie and date.
SameMeal(m, x) ==
    /\ m.name = x.name
    /\ m.dish_name = x.dish_name
    /\ m.calorie = x.calorie
    /\ m.date = x.date

\* Rows a and b occupy the same slot (school_info_id, date, name).
SameSlot(a, b) ==
    /\ a.school_info_id = b.school_info_id
    /\ a.date = b.date
    /\ a.name = b.name

UnknownCreate(p) ==
    /\ call[p].op = "create_by_code"
    /\ ~ Known(call[p].edu_office_code, call[p].standard_school_code)

C1_Returned ==
    \A p \in Procs :
        (pc[p] = "done" /\ UnknownCreate(p) /\ ~ Failed(p))
            => /\ result[p].kind = "CreateMealStatus"
               /\ result[p].val = "SCHOOL_INFO_NOT_FOUND"

C1_Step ==
    \A p \in Procs :
        (UnknownCreate(p) /\ pc[p] # "done")
            => /\ meals' = meals
               /\ pc'[p] \in {"select_school_info", "done"}

\* C1: create_by_code with a code pair matching no SchoolInfo row returns
\* SCHOOL_INFO_NOT_FOUND as a value, and no step of that call changes the
\* stored meal rows (it never reaches the commit).
C1_UnknownSchoolNotFound == [] C1_Returned /\ [][C1_Step]_vars

C1_Witness ==
    /\ meals # {}
    /\ pc["p1"] = "done"
    /\ UnknownCreate("p1")
    /\ result["p1"].kind = "CreateMealStatus"

C2_Returned ==
    \A p \in Procs :
        ( /\ Done(p, "create_by_code")
          /\ Known(call[p].edu_office_code, call[p].standard_school_code)
          /\ ~ Failed(p) )
            => /\ result[p].kind = "int"
               /\ LET got == get_by_id_value(meals, result[p].val)
                  IN  /\ got.kind = "Meal"
                      /\ SameMeal(got.val, call[p].meal)

C2_Step ==
    \A p \in Procs :
        (pc[p] = "commit" /\ pc'[p] = "done" /\ result'[p].kind = "int")
            => /\ meals \subseteq meals'
               /\ Cardinality(meals' \ meals) = 1
               /\ \A m \in meals : m.id # result'[p].val
               /\ \E m \in meals' \ meals : m.id = result'[p].val

\* C2: create_by_code with a known code pair stores exactly one new row and
\* leaves the others as they were, returns the new row's id, which no row
\* had before, and get_by_id of that id gives an entity with the input's
\* name, dish_name, calorie and date.
C2_CreateThenGetById == [] C2_Returned /\ [][C2_Step]_vars

C2_Witness ==
    /\ Done("p1", "create_by_code")
    /\ result["p1"].kind = "int"
    /\ Cardinality(meals) >= 2
    /\ call["p1"].meal.comments # << >>

\* C3: whenever get_id_by_code has returned, its value is the id of an entry
\* of get_with_id_by_code (same codes and date) whose meal name is meal_name,
\* and it is none exactly when there is no such entry.
C3_GetIdMatchesGetWithId ==
    \A p \in Procs :
        (Done(p, "get_id_by_code") /\ ~ Failed(p))
            => LET entries ==
                       get_with_id_by_code_value(meals, schoolInfos,
                           call[p].edu_office_code, call[p].standard_school_code,
                           call[p].date).val
                   matching == { i \in 1 .. Len(entries) :
                                   entries[i][2].name = call[p].meal_name }
               IN  IF matching = {}
                   THEN result[p].kind = "None"
                   ELSE /\ result[p].kind = "int"
                        /\ \E i \in matching : entries[i][1] = result[p].val

\* C4: get_by_id, get_id_by_code and create_by_code end with a value; the
\* only exception they end in is the propagated connectivity failure, also
\* when rows share a slot.
C4_AbsenceNeverRaised ==
    \A p \in Procs :
        ( /\ pc[p] = "done"
          /\ call[p].op \in {"get_by_id", "get_id_by_code", "create_by_code"}
          /\ result[p].kind = "raise" )
            => result[p].val = "DBAPIError"

C5_Scoped ==
    \A p \in Procs :
        /\ pc[p] \in {"idle", "done"}
               => ~ session[p] /\ ~ txn[p] /\ pending[p] = {}
        /\ pc[p] \in {"execute", "select_school_info", "commit"}
               => session[p] /\ txn[p]

C5_Step ==
    \A p \in Procs :
        (pc[p] # "done" /\ pc'[p] = "done" /\ result'[p].kind = "raise")
            => meals' = meals

\* C5: a coroutine queries only with its session and transaction open; once
\* it has finished (by return, by the early return, after the commit, or by
\* a propagated error) neither is open and nothing it added is left
\* unflushed; the step that ends it in an error stores no row.
C5_SessionScoped == [] C5_Scoped /\ [][C5_Step]_vars

C5_Witness ==
    /\ Done("p1", "create_by_code")
    /\ Known(call["p1"].edu_office_code, call["p1"].standard_school_code)
    /\ Failed("p1")
    /\ Done("p2", "create_by_code")
    /\ result["p2"].kind = "CreateMealStatus"

\* The stored rows get_by_code is to report.
C6_Expected(e, s, d) ==
    { m \in meals :
        /\ m.date = d
        /\ \E si \in schoolInfos : /\ si.id = m.school_info_id
                                   /\ si.edu_office_code = e
                                   /\ si.standard_school_code = s }

\* C6: get_by_code returns a list holding, for each stored row of the school
\* with both codes and the given date, that row's entity, once per row, and
\* nothing else; it is empty when there is none.
C6_GetByCodeExact ==
    \A p \in Procs :
        (Done(p, "get_by_code") /\ ~ Failed(p))
            => /\ result[p].kind = "list"
               /\ LET rows == C6_Expected(call[p].edu_office_code,
                                          call[p].standard_school_code,
                                          call[p].date)
                      list == result[p].val
                  IN  /\ Len(list) = Cardinality(rows)
                      /\ \A i \in 1 .. Len(list) :
                            \E m \in rows : list[i] = to_entity(m)
                      /\ \A m \in rows :
                            Cardinality({ i \in 1 .. Len(list) :
                                            list[i] = to_entity(m) })
                              = Cardinality({ o \in rows :
                                                to_entity(o) = to_entity(m) })

C6_Witness ==
    /\ Done("p1", "get_by_code")
    /\ result["p1"].kind = "list"
    /\ Len(result["p1"].val) = 1
    /\ Cardinality(meals) = 2

\* C7: get_by_id returns the entity of the stored row with that id, and none
\* when no stored row has it.
C7_GetById ==
    \A p \in Procs :
        (Done(p, "get_by_id") /\ ~ Failed(p))
            => IF \E m \in meals : m.id = call[p].meal_id
               THEN /\ result[p].kind = "Meal"
                    /\ \E m \in meals : /\ m.id = call[p].meal_id
                                        /\ result[p].val = to_entity(m)
               ELSE result[p].kind = "None"

C7_Witness ==
    /\ Done("p1", "get_by_id")
    /\ result["p1"].kind = "None"
    /\ meals # {}
    /\ call["p1"].meal_id >= nextId

C8_Step ==
    /\ schoolInfos' = schoolInfos
    /\ meals \subseteq meals'
    /\ meals' # meals
           => \E p \in Procs : /\ call[p].op = "create_by_code"
                               /\ pc[p] = "commit"
                               /\ pc'[p] = "done"

\* C8: no step changes a SchoolInfo row or changes or removes a stored meal
\* row, and the only step that adds one is the commit of a create_by_code.
C8_RowsOnlyAdded == [][C8_Step]_vars

C8_Witness ==
    /\ Done("p1", "create_by_code")
    /\ result["p1"].kind = "int"
    /\ Cardinality(meals) = 2
    /\ Done("p2", "get_with_id_by_code")
    /\ result["p2"].kind = "list"
    /\ Len(result["p2"].val) = 1

SameSlotCreates(p, q) ==
    /\ p # q
    /\ Done(p, "create_by_code")
    /\ Done(q, "create_by_code")
    /\ call[p].edu_office_code = call[q].edu_office_code
    /\ call[p].standard_school_code = call[q].standard_school_code
    /\ Known(call[p].edu_office_code, call[p].standard_school_code)
    /\ call[p].meal.date = call[q].meal.date
    /\ call[p].meal.name = call[q].meal.name
    /\ ~ Failed(p)
    /\ ~ Failed(q)

\* C9: two create_by_code calls for the same known school, date and meal
\* name that both ran to their end (no connectivity failure) each returned
\* an id, the ids differ, and both rows are stored, in the same slot.
C9_ConcurrentCreatesBothStored ==
    \A p, q \in Procs :
        SameSlotCreates(p, q)
            => /\ result[p].kind = "int"
               /\ result[q].kind = "int"
               /\ result[p].val # result[q].val
               /\ \E a, b \in meals : /\ a.id = result[p].val
                                      /\ b.id = result[q].val
                                      /\ SameSlot(a, b)

C9_Witness ==
    /\ SameSlotCreates("p1", "p2")
    /\ result["p1"].kind = "int"
    /\ result["p2"].kind = "int"
    /\ result["p2"].val < result["p1"].val

\* C10: every stored meal row references an existing SchoolInfo row and has
\* no comments, and the row a create_by_code call stored references the
\* SchoolInfo row with the codes of that call.
C10_RowsBelongToSchool ==
    /\ \A m \in meals :
          /\ \E si \in schoolInfos : si.id = m.school_info_id
          /\ m.comments = << >>
    /\ \A p \in Procs :
          (Done(p, "create_by_code") /\ result[p].kind = "int")
              => \E m \in meals, si \in schoolInfos :
                    /\ m.id = result[p].val
                    /\ si.id = m.school_info_id
                    /\ si.edu_office_code = call[p].edu_office_code
                    /\ si.standard_school_code = call[p].standard_school_code

C10_Witness ==
    /\ Done("p1", "create_by_code")
    /\ result["p1"].kind = "int"
    /\ call["p1"].meal.comments # << >>
    /\ \E a, b \in meals : a.school_info_id # b.school_info_id

====
